---- MODULE Spec2Model ----
(***************************************************************************)
(* Timetable optimisation engines of Penjadawalan-Algen: the Jadwal data   *)
(* model (jadwal_model.py), the genetic algorithm (genetic_algorithm.py),  *)
(* the tabu search (tabu_search.py) and the objective the application      *)
(* hands to the tabu search (app.py).                                      *)
(*                                                                         *)
(* Jadwal objects are mutable and shared between lists, so a solution is   *)
(* a sequence of object references and the attributes live in `heap`.      *)
(* A fitness is the float 1/(1+conflicts); it is kept as the exact         *)
(* fraction [num, den], and float('inf') is [num |-> 1, den |-> 0].        *)
(***************************************************************************)
EXTENDS Integers, Sequences, FiniteSets, TLC

VARIABLES heap, pc, arg, ret, ga, run, ts, look

vars == <<heap, pc, arg, ret, ga, run, ts, look>>

(***************************************************************************)
(* Bounds of the model.                                                    *)
(***************************************************************************)
\* longest solution handed to a pure function
MaxLen == 2
\* longest parent handed to crossover
MaxParentLen == 3
\* largest population handed to calculate_diversity
MaxDivPop == 3
\* longest solution handed to get_neighbors on its own
MaxNeighborLen == 3

(***************************************************************************)
(* Value domains.  The code draws from 5 days, 5 time slots, 15 rooms and  *)
(* 15 class labels; the model draws from the first few of each.            *)
(***************************************************************************)
HariSet == {"Senin", "Selasa"}
RuangSet == {"301", "305"}
DosenSet == {"d1", "d2"}
KelasSet == {"1", "2"}
SemesterSet == {4, 6}
\* the first slots of genetic_algorithm.py:89-95, as <<mulai, selesai>>
SlotSet == {<<8 * 60, 10 * 60>>, <<10 * 60, 12 * 60>>}
\* time windows of test entries: the slots and the window [540, 660)
WindowSet == SlotSet \cup {<<540, 660>>}

None == "None"

\* value of the variables a specification does not use
Idle == [at |-> "idle"]

\* the list [o1, ..., on] of n distinct objects
RefList(n) == [k \in 1..n |-> k]

\* Jadwal(hari, waktu_mulai, waktu_selesai, matakuliah, dosen, ruang, kelas, semester)
Jadwal(hari, waktu_mulai, waktu_selesai, matakuliah, dosen, ruang, kelas, semester) ==
    [hari |-> hari, waktu_mulai |-> waktu_mulai, waktu_selesai |-> waktu_selesai,
     matakuliah |-> matakuliah, dosen |-> dosen, ruang |-> ruang, kelas |-> kelas,
     semester |-> semester]

\* list1 == list2 in Python: same length and, position by position, the same
\* object or objects equal by the dataclass __eq__ (all fields equal)
ListEq(h, list1, list2) ==
    /\ Len(list1) = Len(list2)
    /\ \A k \in 1..Len(list1) : list1[k] = list2[k] \/ h[list1[k]] = h[list2[k]]

\* entries a test may build: any attribute combination that passes __post_init__
TestEntries ==
    {Jadwal(h, w[1], w[2], 1, d, r, k, s) :
        h \in HariSet, w \in WindowSet, d \in DosenSet, r \in RuangSet,
        k \in KelasSet, s \in SemesterSet}

(***************************************************************************)
(* Fractions.                                                              *)
(***************************************************************************)
Frac(n, d) == [num |-> n, den |-> d]
Inf == Frac(1, 0)
One == Frac(1, 1)
FracLt(a, b) == a.num * b.den < b.num * a.den
FracLe(a, b) == a.num * b.den <= b.num * a.den
FracEq(a, b) == a.num * b.den = b.num * a.den

(***************************************************************************)
(* Jadwal.overlaps                                                         *)
(***************************************************************************)
\* (a variant that lets intervals touching at an endpoint overlap)
overlapsClosed(self, other) ==
    IF self.hari # other.hari \/ self.ruang # other.ruang
    THEN FALSE
    ELSE self.waktu_mulai <= other.waktu_selesai /\ other.waktu_mulai <= self.waktu_selesai

\* (a variant that only looks at the start of self)
overlapsFromSelf(self, other) ==
    IF self.hari # other.hari \/ self.ruang # other.ruang
    THEN FALSE
    ELSE other.waktu_mulai <= self.waktu_mulai /\ self.waktu_mulai < other.waktu_selesai

overlaps(self, other) ==
    IF self.hari # other.hari \/ self.ruang # other.ruang
    THEN FALSE
    ELSE self.waktu_mulai < other.waktu_selesai /\ other.waktu_mulai < self.waktu_selesai

(***************************************************************************)
(* AlgoritmaGenetika.calculate_fitness                                     *)
(***************************************************************************)
\* (a variant that counts a pair once, however many checks fire)
PairConflictsOnce(jadwal_i, jadwal_j) ==
    IF jadwal_i.hari = jadwal_j.hari /\ overlaps(jadwal_i, jadwal_j) THEN 1 ELSE 0

\* the three increments of the loop body for one pair (i, j)
PairConflicts(jadwal_i, jadwal_j) ==
    IF jadwal_i.hari = jadwal_j.hari
    THEN (IF jadwal_i.ruang = jadwal_j.ruang
          THEN (IF overlaps(jadwal_i, jadwal_j) THEN 1 ELSE 0) ELSE 0)
         + (IF jadwal_i.dosen = jadwal_j.dosen
            THEN (IF overlaps(jadwal_i, jadwal_j) THEN 1 ELSE 0) ELSE 0)
         + (IF jadwal_i.kelas = jadwal_j.kelas
            THEN (IF jadwal_i.semester = jadwal_j.semester
                  THEN (IF overlaps(jadwal_i, jadwal_j) THEN 1 ELSE 0) ELSE 0)
            ELSE 0)
    ELSE 0

\* the double loop over i < j, from pair (i, j) on
RECURSIVE ConflictsFrom(_, _, _, _)
ConflictsFrom(h, individu, i, j) ==
    IF i > Len(individu) THEN 0
    ELSE IF j > Len(individu) THEN ConflictsFrom(h, individu, i + 1, i + 2)
    ELSE PairConflicts(h[individu[i]], h[individu[j]])
         + ConflictsFrom(h, individu, i, j + 1)

Conflicts(h, individu) == ConflictsFrom(h, individu, 1, 2)

\* (a variant without the 1 + of the normalisation)
FitnessOfOff(conflicts) == Frac(1, conflicts)

\* fitness = 1 / (1 + conflicts)
FitnessOf(conflicts) == Frac(1, 1 + conflicts)

calculate_fitness(h, individu) == FitnessOf(Conflicts(h, individu))

(***************************************************************************)
(* Catalogs (the `data` argument of AlgoritmaGenetika).                    *)
(***************************************************************************)
Course(kode, sks, dosen) == [kode |-> kode, nama |-> kode, sks |-> sks, dosen |-> dosen]

\* no course at all
CatEmpty == [semester_2 |-> <<>>, semester_4 |-> <<>>, semester_6 |-> <<>>]
\* a single course
CatOne == [semester_2 |-> <<Course("A", 2, <<"d1">>)>>, semester_4 |-> <<>>,
           semester_6 |-> <<>>]
\* two courses with one eligible instructor each
CatTwo == [semester_2 |-> <<Course("A", 2, <<"d1">>)>>,
           semester_4 |-> <<Course("B", 3, <<"d2">>)>>, semester_6 |-> <<>>]
\* a course whose instructor list is empty
CatNoDosen == [semester_2 |-> <<>>, semester_4 |-> <<>>,
               semester_6 |-> <<Course("C", 2, <<>>)>>]
\* a course with a credit weight of 0
CatBadSks == [semester_2 |-> <<Course("A", 0, <<"d1">>)>>, semester_4 |-> <<>>,
              semester_6 |-> <<>>]
\* no semester_6 bucket
CatNoBucket == [semester_2 |-> <<Course("A", 2, <<"d1">>)>>, semester_4 |-> <<>>]

\* a course record without the field nama
CatNoField == [semester_2 |-> <<>>,
               semester_4 |-> <<[kode |-> "B", sks |-> 3, dosen |-> <<"d2">>]>>,
               semester_6 |-> <<>>]

CatalogSet == {CatEmpty, CatOne, CatTwo, CatNoDosen, CatBadSks, CatNoBucket, CatNoField}

RequiredSemesters == <<"semester_2", "semester_4", "semester_6">>
RequiredFields == {"kode", "nama", "sks", "dosen"}

\* AlgoritmaGenetika.validate_data: "ok" or the error it raises.  (The two
\* isinstance checks are on the types of sks and dosen; every catalog of the
\* model has an integer sks and a list dosen.)
validate_data(data) ==
    IF \E b \in 1..3 : RequiredSemesters[b] \notin DOMAIN data
    THEN "ValueError"
    ELSE IF \E b \in 1..3 : \E c \in 1..Len(data[RequiredSemesters[b]]) :
                \/ ~(RequiredFields \subseteq DOMAIN data[RequiredSemesters[b]][c])
                \/ data[RequiredSemesters[b]][c].sks <= 0
         THEN "ValueError"
         ELSE "ok"

\* all_courses of generate_random_jadwal: the three buckets, in order
all_courses(data) == data.semester_2 \o data.semester_4 \o data.semester_6

(***************************************************************************)
(* Random draws.  random.random() lies in [0, 1); draws and rates are in   *)
(* hundredths.                                                             *)
(***************************************************************************)
RandomSet == {0, 50, 99}
RateSet == {0, 50, 100}

\* what generate_random_jadwal and mutate draw from (the first of each list)
GenHari == {"Senin"}
GenRuang == {"301"}
GenKelas == {"1"}

(***************************************************************************)
(* AlgoritmaGenetika.generate_random_jadwal                                *)
(***************************************************************************)
\* the entries the generator can build for the k-th course: after the loop
\* at lines 84-85 the variable `semester` is "semester_6" for every course
GeneratedEntries(data, k) ==
    {Jadwal(h, w[1], w[2], k, all_courses(data)[k].dosen[d], r, kl, 6) :
        h \in GenHari, w \in SlotSet, d \in 1..Len(all_courses(data)[k].dosen),
        r \in GenRuang, kl \in GenKelas}

\* random.choice(course["dosen"]) raises IndexError on an empty list
GenerateRaises(data) ==
    \E k \in 1..Len(all_courses(data)) : Len(all_courses(data)[k].dosen) = 0

\* the lists of entries one call of the generator can return, from course k on
RECURSIVE GeneratedFrom(_, _)
GeneratedFrom(data, k) ==
    IF k > Len(all_courses(data)) THEN {<<>>}
    ELSE {<<e>> \o rest : e \in GeneratedEntries(data, k),
                          rest \in GeneratedFrom(data, k + 1)}

\* the heaps that `count` calls of the generator can leave: the call number p
\* allocates the objects (p-1)*N + 1 .. p*N, one per course
NumCourses(data) == Len(all_courses(data))
ObjOf(data, p, k) == (p - 1) * NumCourses(data) + k
RECURSIVE GeneratedHeaps(_, _)
GeneratedHeaps(data, count) ==
    IF count = 0 THEN {<<>>}
    ELSE {h \o jadwal : h \in GeneratedHeaps(data, count - 1),
                        jadwal \in GeneratedFrom(data, 1)}
GeneratedIndividual(data, p) == [k \in 1..NumCourses(data) |-> ObjOf(data, p, k)]

(***************************************************************************)
(* Results of calls that may raise.                                        *)
(***************************************************************************)
Raised(error) == [raised |-> error, value |-> None]
Returned(value) == [raised |-> None, value |-> value]

Min2(a, b) == IF a < b THEN a ELSE b
Max2(a, b) == IF a > b THEN a ELSE b

(***************************************************************************)
(* Jadwal.to_dict and AlgoritmaGenetika.calculate_diversity                *)
(***************************************************************************)
\* to_dict reads self.hari.value, self.matakuliah.kode and self.kelas.value;
\* hari and kelas are str and matakuliah is a dict in every Jadwal the
\* generator builds, so the first attribute access raises
to_dict(self) == Raised("AttributeError")

\* the generator expression of lines 221-222 calls to_dict for k = 0 of the
\* first pair whose left solution has an entry; with no entry anywhere the
\* sum is 0 and line 225 divides by len(populasi[0]) = 0
calculate_diversity(h, populasi) ==
    IF Len(populasi) < 2 THEN Returned(Frac(0, 1))
    ELSE IF \E i \in 1..(Len(populasi) - 1) : Len(populasi[i]) >= 1
         THEN LET i == CHOOSE i \in 1..(Len(populasi) - 1) : Len(populasi[i]) >= 1
              IN to_dict(h[populasi[i][1]])
         ELSE Raised("ZeroDivisionError")

(***************************************************************************)
(* sorted(populasi, key=calculate_fitness) and min(populasi, key=...)      *)
(***************************************************************************)
\* x put behind every element whose key is <= its own (sorted is stable)
RECURSIVE InsertByFitness(_, _, _)
InsertByFitness(h, sorted, x) ==
    IF sorted = <<>> THEN <<x>>
    ELSE IF FracLe(calculate_fitness(h, Head(sorted)), calculate_fitness(h, x))
         THEN <<Head(sorted)>> \o InsertByFitness(h, Tail(sorted), x)
         ELSE <<x>> \o sorted

RECURSIVE SortedByFitness(_, _)
SortedByFitness(h, populasi) ==
    IF populasi = <<>> THEN <<>>
    ELSE InsertByFitness(h, SortedByFitness(h, SubSeq(populasi, 1, Len(populasi) - 1)),
                         populasi[Len(populasi)])

\* fitness_scores = [self.calculate_fitness(ind) for ind in populasi]
FitnessScores(h, populasi) ==
    [i \in 1..Len(populasi) |-> calculate_fitness(h, populasi[i])]

\* index of the first of the lowest scores, which is what min() keeps
MinIndex(scores) ==
    CHOOSE i \in DOMAIN scores :
        /\ \A j \in DOMAIN scores : FracLe(scores[i], scores[j])
        /\ \A j \in 1..(i - 1) : FracLt(scores[i], scores[j])

MaxIndex(scores) ==
    CHOOSE i \in DOMAIN scores : \A j \in DOMAIN scores : FracLe(scores[j], scores[i])

MinByFitness(h, populasi) == populasi[MinIndex(FitnessScores(h, populasi))]

\* min(fitness_scores), max(fitness_scores) and sum(fitness_scores) / len(...)
MinFitness(h, populasi) ==
    LET scores == FitnessScores(h, populasi) IN scores[MinIndex(scores)]
MaxFitness(h, populasi) ==
    LET scores == FitnessScores(h, populasi) IN scores[MaxIndex(scores)]
FracAdd(a, b) == Frac(a.num * b.den + b.num * a.den, a.den * b.den)
RECURSIVE SumFitness(_, _)
SumFitness(h, populasi) ==
    IF populasi = <<>> THEN Frac(0, 1)
    ELSE FracAdd(calculate_fitness(h, Head(populasi)), SumFitness(h, Tail(populasi)))
AverageFitness(h, populasi) ==
    Frac(SumFitness(h, populasi).num, SumFitness(h, populasi).den * Len(populasi))

(***************************************************************************)
(* AlgoritmaGenetika.tournament_selection                                  *)
(***************************************************************************)
TournamentSize == 5

\* random.sample raises ValueError when the sample is larger than the population
TournamentRaises(populasi) == TournamentSize > Len(populasi)

\* the solutions a tournament can return: min() keeps the first of the
\* lowest-fitness members of the sample, and the sample comes in any order
TournamentWinners(h, populasi) ==
    LET fitness == [i \in 1..Len(populasi) |-> calculate_fitness(h, populasi[i])]
    IN {populasi[i] : i \in {i \in 1..Len(populasi) :
           \E sample \in SUBSET (1..Len(populasi)) :
               /\ Cardinality(sample) = TournamentSize
               /\ i \in sample
               /\ \A j \in sample : FracLe(fitness[i], fitness[j])}}

(***************************************************************************)
(* AlgoritmaGenetika.crossover                                             *)
(***************************************************************************)
\* (a variant that repeats the entry at the cut point)
SpliceOff(parent1, parent2, point) ==
    SubSeq(parent1, 1, point) \o SubSeq(parent2, point, Len(parent2))

\* (a variant that drops the entry after the cut point)
SpliceShort(parent1, parent2, point) ==
    SubSeq(parent1, 1, point) \o SubSeq(parent2, point + 2, Len(parent2))

\* parent1[:point] + parent2[point:]
Splice(parent1, parent2, point) ==
    SubSeq(parent1, 1, point) \o SubSeq(parent2, point + 1, Len(parent2))

\* the results crossover can give:
\* [raised, value |-> <<child1, child2>>, crossed, point], point 0 when none is drawn
CrossoverResults(crossover_rate, parent1, parent2) ==
    {[raised |-> None, value |-> <<parent1, parent2>>, crossed |-> FALSE, point |-> 0] :
        r \in {r \in RandomSet : r > crossover_rate}}
    \cup
    (IF \E r \in RandomSet : ~(r > crossover_rate)
     THEN IF Len(parent1) - 1 < 1
          THEN {[raised |-> "ValueError", value |-> <<parent1, parent2>>,
                 crossed |-> FALSE, point |-> 0]}
          ELSE {[raised |-> None,
                 value |-> <<Splice(parent1, parent2, point), Splice(parent2, parent1, point)>>,
                 crossed |-> TRUE, point |-> point] : point \in 1..(Len(parent1) - 1)}
     ELSE {})

(***************************************************************************)
(* AlgoritmaGenetika.mutate                                                *)
(***************************************************************************)
NoWaktu == <<0, 0>>
Mutation(kind, waktu, hari, ruang) ==
    [kind |-> kind, waktu |-> waktu, hari |-> hari, ruang |-> ruang]

\* (a variant whose first test is random.random() <= mutation_rate)
MutationChoicesLe(mutation_rate) ==
    {Mutation("none", NoWaktu, None, None) : r \in {r \in RandomSet : ~(r <= mutation_rate)}}
    \cup {Mutation("waktu", w, None, None) :
            r \in {r \in RandomSet : r <= mutation_rate}, w \in SlotSet}

\* what the draws of lines 181-205 can decide for one entry
MutationChoices(mutation_rate) ==
    {Mutation("none", NoWaktu, None, None) : r \in {r \in RandomSet : ~(r < mutation_rate)}}
    \cup {Mutation("waktu", w, None, None) :
            r \in {r \in RandomSet : r < mutation_rate},
            r1 \in {r1 \in RandomSet : r1 < 33}, w \in SlotSet}
    \cup {Mutation("hari", NoWaktu, hr, None) :
            r \in {r \in RandomSet : r < mutation_rate},
            r1 \in {r1 \in RandomSet : ~(r1 < 33)},
            r2 \in {r2 \in RandomSet : r2 < 33}, hr \in GenHari}
    \cup {Mutation("ruang", NoWaktu, None, rg) :
            r \in {r \in RandomSet : r < mutation_rate},
            r1 \in {r1 \in RandomSet : ~(r1 < 33)},
            r2 \in {r2 \in RandomSet : ~(r2 < 33)}, rg \in GenRuang}

\* the assignment of lines 191-205 to one Jadwal object
MutateEntry(entry, m) ==
    CASE m.kind = "none" -> entry
      [] m.kind = "waktu" -> [entry EXCEPT !.waktu_mulai = m.waktu[1],
                                           !.waktu_selesai = m.waktu[2]]
      [] m.kind = "hari" -> [entry EXCEPT !.hari = m.hari]
      [] m.kind = "ruang" -> [entry EXCEPT !.ruang = m.ruang]

\* the loop of lines 180-207 from position i on: the heap it leaves.
\* mutated = individu.copy() is a new list of the same objects, so the
\* assignments go to the objects the argument holds
RECURSIVE MutateHeap(_, _, _, _)
MutateHeap(h, mutated, choice, i) ==
    IF i > Len(mutated) THEN h
    ELSE MutateHeap([h EXCEPT ![mutated[i]] = MutateEntry(h[mutated[i]], choice[i])],
                    mutated, choice, i + 1)

MutationCount(choice) == Cardinality({i \in DOMAIN choice : choice[i].kind # "none"})

(***************************************************************************)
(* AlgoritmaGenetika.__init__ and AlgoritmaGenetika.run                    *)
(*                                                                         *)
(* pc: "new" (fields assigned, validate_data not yet called), "run" (run   *)
(* called), "loop" (top of the generation loop), "breed" (lines 250-275,   *)
(* position in run.at), "update" (lines 275-291), "return", "done",        *)
(* "error" (an exception left the call; run.error names it).               *)
(***************************************************************************)
\* largest population and generation budget
MaxPop == 4
MaxGen == 5

NewMetrics ==
    [generations |-> <<>>, best_fitness |-> <<>>, average_fitness |-> <<>>,
     diversity |-> <<>>, crossover_count |-> 0, mutation_count |-> 0]

NewGA(data, ukuran_populasi, generasi, crossover_rate, mutation_rate, elitism_rate) ==
    [data |-> data, ukuran_populasi |-> ukuran_populasi, generasi |-> generasi,
     crossover_rate |-> crossover_rate, mutation_rate |-> mutation_rate,
     elitism_rate |-> elitism_rate, best_fitness |-> Inf, best_solution |-> None,
     metrics |-> NewMetrics]

\* the locals of run
NewRun(entry) ==
    [entry |-> entry, at |-> None, error |-> None, gen |-> 0, populasi |-> <<>>,
     num_elites |-> 0, new_populasi |-> <<>>, parent1 |-> <<>>, parent2 |-> <<>>,
     children |-> <<>>, child |-> 0]

InitGA ==
    /\ \E data \in CatalogSet, ukuran_populasi \in 1..MaxPop, generasi \in {1, MaxGen},
          crossover_rate \in RateSet, mutation_rate \in RateSet, elitism_rate \in RateSet :
          ga = NewGA(data, ukuran_populasi, generasi, crossover_rate, mutation_rate,
                     elitism_rate)
    /\ heap = <<>>
    /\ pc = "new"
    /\ run = NewRun("run")
    /\ arg = Idle /\ ret = None /\ ts = Idle /\ look = Idle

\* __init__, line 53: self.validate_data()
Construct ==
    /\ pc = "new"
    /\ IF validate_data(ga.data) = "ok"
       THEN pc' = "run" /\ run' = run
       ELSE pc' = "error" /\ run' = [run EXCEPT !.error = validate_data(ga.data),
                                                !.at = "__init__"]
    /\ UNCHANGED <<heap, arg, ret, ga, ts, look>>

\* run, line 232: the initial population
InitPopulation ==
    /\ pc = "run"
    /\ IF GenerateRaises(ga.data)
       THEN /\ pc' = "error"
            /\ run' = [run EXCEPT !.error = "IndexError", !.at = "generate_random_jadwal"]
            /\ heap' = heap
       ELSE /\ \E h \in GeneratedHeaps(ga.data, ga.ukuran_populasi) : heap' = h
            /\ run' = [run EXCEPT !.populasi =
                         [p \in 1..ga.ukuran_populasi |->
                             GeneratedIndividual(ga.data, p)]]
            /\ pc' = "loop"
    /\ UNCHANGED <<arg, ret, ga, ts, look>>

\* run, lines 234-248: the loop test, the statistics of the generation
Evaluate ==
    /\ pc = "loop"
    /\ run.gen < ga.generasi
    /\ LET m == ga.metrics
           m1 == [m EXCEPT !.generations = Append(@, run.gen),
                           !.best_fitness = Append(@, MinFitness(heap, run.populasi)),
                           !.average_fitness = Append(@, AverageFitness(heap, run.populasi))]
           d == calculate_diversity(heap, run.populasi)
       IN IF d.raised # None
          THEN /\ ga' = [ga EXCEPT !.metrics = m1]
               /\ pc' = "error"
               /\ run' = [run EXCEPT !.error = d.raised, !.at = "calculate_diversity"]
          ELSE /\ ga' = [ga EXCEPT !.metrics = [m1 EXCEPT !.diversity = Append(@, d.value)]]
               /\ pc' = "breed"
               /\ run' = [run EXCEPT !.at = "elites"]
    /\ look' = IF run.gen = 0
               THEN [first_worst |-> MaxFitness(heap, run.populasi)]
               ELSE look
    /\ UNCHANGED <<heap, arg, ret, ts>>

\* an exception leaves run
RunRaises(error, where) ==
    /\ pc' = "error"
    /\ run' = [run EXCEPT !.error = error, !.at = where]

\* lines 250-255: num_elites, elites, new_populasi = elites.copy()
\* line 251 with the product rounded up instead of truncated
NumElitesUp(ukuran_populasi, elitism_rate) ==
    Max2(2, (ukuran_populasi * elitism_rate + 99) \div 100)

\* line 251: max(2, int(ukuran_populasi * elitism_rate)), the rate in hundredths
NumElites(ukuran_populasi, elitism_rate) ==
    Max2(2, (ukuran_populasi * elitism_rate) \div 100)

Elites(h, populasi, num_elites) ==
    SubSeq(SortedByFitness(h, populasi), 1, Min2(num_elites, Len(populasi)))

BreedElites ==
    /\ run' = [run EXCEPT
                 !.num_elites = NumElites(ga.ukuran_populasi, ga.elitism_rate),
                 !.new_populasi = Elites(heap, run.populasi,
                                         NumElites(ga.ukuran_populasi, ga.elitism_rate)),
                 !.at = "while"]
    /\ UNCHANGED <<heap, pc, ga>>

\* line 257 leaving the loop one individual early
NeedsOffspringShort(new_populasi, ukuran_populasi) ==
    Len(new_populasi) + 1 < ukuran_populasi

\* line 257: while len(new_populasi) < self.ukuran_populasi
NeedsOffspring(new_populasi, ukuran_populasi) ==
    Len(new_populasi) < ukuran_populasi

\* lines 257-260: the while test and the two tournaments
BreedSelect ==
    /\ IF NeedsOffspring(run.new_populasi, ga.ukuran_populasi)
       THEN IF TournamentRaises(run.populasi)
            THEN RunRaises("ValueError", "tournament_selection")
            ELSE /\ LET winners == TournamentWinners(heap, run.populasi)
                    IN \E parent1 \in winners, parent2 \in winners :
                          run' = [run EXCEPT !.parent1 = parent1, !.parent2 = parent2,
                                             !.at = "crossover"]
                 /\ pc' = pc
       ELSE /\ pc' = "update"
            /\ run' = [run EXCEPT !.at = None]
    /\ UNCHANGED <<heap, ga>>

\* line 263: children = self.crossover(parent1, parent2)
BreedCrossover ==
    /\ \E c \in CrossoverResults(ga.crossover_rate, run.parent1, run.parent2) :
          IF c.raised # None
          THEN RunRaises(c.raised, "crossover") /\ ga' = ga
          ELSE /\ run' = [run EXCEPT !.children = c.value, !.child = 1, !.at = "mutate"]
               /\ ga' = [ga EXCEPT !.metrics.crossover_count =
                                      IF c.crossed THEN @ + 1 ELSE @]
               /\ pc' = pc
    /\ UNCHANGED heap

\* lines 266-272: one pass of the for loop over the children
BreedMutate ==
    /\ \E choice \in [1..Len(run.children[run.child]) ->
                        MutationChoices(ga.mutation_rate)] :
          /\ heap' = MutateHeap(heap, run.children[run.child], choice, 1)
          /\ ga' = [ga EXCEPT !.metrics.mutation_count = @ + MutationCount(choice)]
    /\ run' = [run EXCEPT
                 !.new_populasi = Append(@, run.children[run.child]),
                 !.child = IF run.child = 1 THEN 2 ELSE 0,
                 !.at = IF Len(run.new_populasi) + 1 >= ga.ukuran_populasi
                           \/ run.child = 2
                        THEN "while" ELSE "mutate"]
    /\ pc' = pc

\* run, lines 250-275: the next generation, one step at a time
Breed ==
    /\ pc = "breed"
    /\ CASE run.at = "elites" -> BreedElites
         [] run.at = "while" -> BreedSelect
         [] run.at = "crossover" -> BreedCrossover
         [] run.at = "mutate" -> BreedMutate
    /\ UNCHANGED <<arg, ret, ts, look>>

\* the global best after lines 277-283, as <<best_fitness, best_solution>>
UpdatedBest(h, populasi, best_fitness, best_solution) ==
    LET scores == FitnessScores(h, populasi)
        current_best == MinIndex(scores)
    IN IF FracLt(scores[current_best], best_fitness)
       THEN <<scores[current_best], populasi[current_best]>>
       ELSE <<best_fitness, best_solution>>

\* line 286: if self.best_fitness <= 0
StopCondition(best_fitness) == FracLe(best_fitness, Frac(0, 1))

\* run, lines 275-291: the new population replaces the old one, the global
\* best and the stop test.  (A run entered at the loop body, run.entry =
\* "body", goes on with the body of the next generation.)
\* line 275: populasi = new_populasi[:self.ukuran_populasi]
NextPopulasi(new_populasi, ukuran_populasi) ==
    SubSeq(new_populasi, 1, Min2(ukuran_populasi, Len(new_populasi)))

Update ==
    /\ pc = "update"
    /\ LET populasi == NextPopulasi(run.new_populasi, ga.ukuran_populasi)
           best == UpdatedBest(heap, populasi, ga.best_fitness, ga.best_solution)
       IN /\ ga' = [ga EXCEPT !.best_fitness = best[1], !.best_solution = best[2]]
          /\ IF StopCondition(best[1])
             THEN /\ run' = [run EXCEPT !.populasi = populasi]
                  /\ pc' = "return"
             ELSE /\ run' = [run EXCEPT !.populasi = populasi, !.gen = @ + 1,
                                        !.at = IF run.entry = "body" THEN "elites" ELSE None]
                  /\ pc' = IF run.entry = "body" /\ run.gen + 1 < ga.generasi
                           THEN "breed" ELSE "loop"
          /\ look' = IF run.entry = "body"
                     THEN [look EXCEPT !.best_series =
                             Append(@, MinFitness(heap, populasi))]
                     ELSE look
    /\ UNCHANGED <<heap, arg, ret, ts>>

\* run, lines 293-299: return self.best_solution, self.best_fitness, self.metrics
Return ==
    /\ \/ pc = "return"
       \/ pc = "loop" /\ run.gen >= ga.generasi
    /\ pc' = "done"
    /\ ret' = [best_solution |-> ga.best_solution, best_fitness |-> ga.best_fitness,
               metrics |-> ga.metrics]
    /\ UNCHANGED <<heap, arg, ga, run, ts, look>>

NextGA == Construct \/ InitPopulation \/ Evaluate \/ Breed \/ Update \/ Return

SpecGA == InitGA /\ [][NextGA]_vars

(***************************************************************************)
(* Properties of run (behaviours of SpecGA).                               *)
(***************************************************************************)
\* C6 as stated, for the genetic algorithm: no generation is executed after a
\* generation that left a best fitness of 1 (zero conflicts).  best_fitness is
\* float('inf') until the first generation ends, so a loop body entered with
\* best_fitness = 1 is a generation too many.
C6_NoGenerationAfterOptimum ==
    pc = "breed" => ~FracEq(ga.best_fitness, One)

\* C7 as stated: once validate_data has passed, run reaches its return
\* statement and no exception leaves it.
C7_RunNeverRaises ==
    pc = "error" => run.at = "__init__"

\* C8 as stated: with 2 courses of one instructor each, 4 individuals and 5
\* generations, run completes and its best_fitness is strictly less than the
\* fitness of the worst (highest-score) member of the first generation.
ScenarioA ==
    ga.data = CatTwo /\ ga.ukuran_populasi = 4 /\ ga.generasi = 5

C8_ScenarioAImproves ==
    ScenarioA =>
        /\ pc # "error"
        /\ (pc = "done" => FracLt(ret.best_fitness, look.first_worst))

(***************************************************************************)
(* The loop body of run from the elite selection on (lines 250-291),       *)
(* entered with any population the generator can build.  In run itself     *)
(* this point is reached only with a single individual, because            *)
(* calculate_diversity raises for two or more (see Evaluate).              *)
(* look.best_series is the lowest fitness of each population in turn.      *)
(***************************************************************************)
\* largest population and number of generations of the loop body
MaxBreedPop == 5
MaxBreedGen == 1

\* the rates of the loop body: a mutation rate of 50 allows every outcome of
\* the other rates; with 5 individuals the elitism rates give 4 and 5 elites
BreedCrossoverRates == {0, 100}
BreedMutationRates == {0, 50}
BreedElitismRates == {80, 100}

InitBreed ==
    /\ \E ukuran_populasi \in TournamentSize..MaxBreedPop :
       \E h \in GeneratedHeaps(CatTwo, ukuran_populasi) :
       \E generasi \in 1..MaxBreedGen, crossover_rate \in BreedCrossoverRates,
          mutation_rate \in BreedMutationRates, elitism_rate \in BreedElitismRates :
          /\ ga = NewGA(CatTwo, ukuran_populasi, generasi, crossover_rate, mutation_rate,
                        elitism_rate)
          /\ heap = h
          /\ run = [NewRun("body") EXCEPT
                      !.populasi = [p \in 1..ukuran_populasi |->
                                       GeneratedIndividual(CatTwo, p)],
                      !.at = "elites"]
    /\ pc = "breed"
    /\ look = [best_series |-> <<MinFitness(heap, run.populasi)>>]
    /\ arg = Idle /\ ret = None /\ ts = Idle

NextBreed == Breed \/ Update \/ Return

SpecBreed == InitBreed /\ [][NextBreed]_vars

ParentEntries == {Jadwal("Senin", 480, 600, 1, "d1", r, "1", 6) : r \in RuangSet}

\* entries of the solution handed to mutate
MutateEntries ==
    {Jadwal(h, w[1], w[2], 1, "d1", r, "1", 6) :
        h \in HariSet, w \in SlotSet, r \in RuangSet}

InitCall ==
    /\ \/ \E n \in 0..MaxLen : \E h \in [1..n -> TestEntries] :
             /\ heap = h
             /\ arg = [fn |-> "calculate_fitness", individu |-> RefList(n)]
             /\ ga = Idle
       \/ \E n \in 0..MaxParentLen : \E h \in [1..(2 * n) -> ParentEntries] :
          \E crossover_rate \in RateSet :
             /\ heap = h
             /\ arg = [fn |-> "crossover", parent1 |-> RefList(n),
                       parent2 |-> [k \in 1..n |-> n + k]]
             /\ ga = NewGA(CatEmpty, 1, 1, crossover_rate, 0, 0)
       \/ \E n \in 0..MaxLen : \E h \in [1..n -> MutateEntries] :
          \E mutation_rate \in RateSet :
             /\ heap = h
             /\ arg = [fn |-> "mutate", individu |-> RefList(n)]
             /\ ga = NewGA(CatEmpty, 1, 1, 0, mutation_rate, 0)
       \/ \E h \in [1..2 -> TestEntries] : \E self \in 1..2, other \in 1..2 :
             /\ heap = h
             /\ arg = [fn |-> "overlaps", self |-> self, other |-> other]
             /\ ga = Idle
       \/ \E m \in 1..MaxDivPop, n \in 0..MaxLen :
          \E h \in [1..(m * n) -> GeneratedEntries(CatOne, 1)] :
             /\ heap = h
             /\ arg = [fn |-> "calculate_diversity",
                       populasi |-> [i \in 1..m |-> [k \in 1..n |-> (i - 1) * n + k]]]
             /\ ga = Idle
    /\ pc = "call"
    /\ ret = None
    /\ run = Idle /\ ts = Idle
    /\ look = [before |-> heap]

CallCalculateFitness ==
    /\ pc = "call"
    /\ arg.fn = "calculate_fitness"
    /\ ret' = calculate_fitness(heap, arg.individu)
    /\ pc' = "returned"
    /\ UNCHANGED <<heap, arg, ga, run, ts, look>>

CallCrossover ==
    /\ pc = "call"
    /\ arg.fn = "crossover"
    /\ \E c \in CrossoverResults(ga.crossover_rate, arg.parent1, arg.parent2) :
          /\ ret' = c
          /\ ga' = [ga EXCEPT !.metrics.crossover_count = IF c.crossed THEN @ + 1 ELSE @]
          /\ pc' = IF c.raised # None THEN "raised" ELSE "returned"
    /\ UNCHANGED <<heap, arg, run, ts, look>>

\* mutate returns `mutated`, a new list of the objects of `individu`
CallMutate ==
    /\ pc = "call"
    /\ arg.fn = "mutate"
    /\ \E choice \in [1..Len(arg.individu) -> MutationChoices(ga.mutation_rate)] :
          /\ heap' = MutateHeap(heap, arg.individu, choice, 1)
          /\ ga' = [ga EXCEPT !.metrics.mutation_count = @ + MutationCount(choice)]
    /\ ret' = arg.individu
    /\ pc' = "returned"
    /\ UNCHANGED <<arg, run, ts, look>>

CallOverlaps ==
    /\ pc = "call"
    /\ arg.fn = "overlaps"
    /\ ret' = overlaps(heap[arg.self], heap[arg.other])
    /\ pc' = "returned"
    /\ UNCHANGED <<heap, arg, ga, run, ts, look>>

\* ret is [raised, value]
CallCalculateDiversity ==
    /\ pc = "call"
    /\ arg.fn = "calculate_diversity"
    /\ ret' = calculate_diversity(heap, arg.populasi)
    /\ pc' = IF ret'.raised # None THEN "raised" ELSE "returned"
    /\ UNCHANGED <<heap, arg, ga, run, ts, look>>

NextCall ==
    \/ CallCalculateFitness
    \/ CallCrossover
    \/ CallMutate
    \/ CallOverlaps
    \/ CallCalculateDiversity

SpecCall == InitCall /\ [][NextCall]_vars

(***************************************************************************)
(* Properties of calculate_fitness (behaviours of SpecCall).                *)
(***************************************************************************)
FitnessReturned == pc = "returned" /\ arg.fn = "calculate_fitness"

\* the entry at position i of the solution under test
EntryAt(i) == heap[arg.individu[i]]

PairsOf(n) == {p \in (1..n) \X (1..n) : p[1] < p[2]}

\* same day and intersecting half-open time intervals
SameDayAndTime(a, b) ==
    /\ a.hari = b.hari
    /\ a.waktu_mulai < b.waktu_selesai /\ b.waktu_mulai < a.waktu_selesai

\* the attribute `kind` is shared by entries a and b
Shares(a, b, kind) ==
    CASE kind = "ruang" -> a.ruang = b.ruang
      [] kind = "dosen" -> a.dosen = b.dosen
      [] kind = "kelas" -> a.kelas = b.kelas /\ a.semester = b.semester

\* C1: for every solution S, calculate_fitness(S) lies in (0, 1], and it is 1
\* exactly when the number of conflicts counted for S is 0.
C1_FitnessRange ==
    FitnessReturned =>
        /\ ret.den > 0
        /\ FracLt(Frac(0, 1), ret)
        /\ FracLe(ret, One)
        /\ (FracEq(ret, One) <=> Conflicts(heap, arg.individu) = 0)

\* C1 witness: a fitness was returned for a solution with conflicts, below 1.
C1_Witness ==
    /\ FitnessReturned
    /\ Conflicts(heap, arg.individu) > 0
    /\ FracLt(ret, One)

\* the two-entry solution of scenario B: same day, same room, [480,600) and [540,660)
ScenarioB ==
    /\ Len(arg.individu) = 2
    /\ EntryAt(1).hari = EntryAt(2).hari
    /\ EntryAt(1).ruang = EntryAt(2).ruang
    /\ EntryAt(1).waktu_mulai = 480 /\ EntryAt(1).waktu_selesai = 600
    /\ EntryAt(2).waktu_mulai = 540 /\ EntryAt(2).waktu_selesai = 660

\* C2 as stated: the conflict count is the number of unordered pairs that
\* conflict, each pair counted once; scenario B has count 1 and fitness 1/2
\* whatever the instructors and class labels.
C2_EachPairOnce ==
    FitnessReturned =>
        /\ Conflicts(heap, arg.individu) =
              Cardinality({p \in PairsOf(Len(arg.individu)) :
                              PairConflicts(EntryAt(p[1]), EntryAt(p[2])) > 0})
        /\ (ScenarioB => Conflicts(heap, arg.individu) = 1 /\ ret = Frac(1, 2))

\* C2 amended: the conflict count is the number of (unordered pair, attribute)
\* combinations such that the two entries are on the same day, overlap
\* (Jadwal.overlaps) and share the attribute, the attributes being the room,
\* the instructor, and the class label together with the semester: a pair
\* counts 0 to 3 times.  Scenario B has count 1 and fitness 1/2 when the
\* instructors differ and the class label or the semester differs, and one
\* more conflict for each of the two that is shared.
C2_ConflictCount ==
    FitnessReturned =>
        /\ Conflicts(heap, arg.individu) =
              Cardinality({t \in PairsOf(Len(arg.individu)) \X {"ruang", "dosen", "kelas"} :
                              /\ SameDayAndTime(EntryAt(t[1][1]), EntryAt(t[1][2]))
                              /\ EntryAt(t[1][1]).ruang = EntryAt(t[1][2]).ruang
                              /\ Shares(EntryAt(t[1][1]), EntryAt(t[1][2]), t[2])})
        /\ (ScenarioB =>
              ret = Frac(1, 2 + (IF Shares(EntryAt(1), EntryAt(2), "dosen") THEN 1 ELSE 0)
                              + (IF Shares(EntryAt(1), EntryAt(2), "kelas") THEN 1 ELSE 0)))

\* C2 witness: scenario B with a shared instructor was evaluated (count 2 or 3).
C2_Witness ==
    /\ FitnessReturned
    /\ ScenarioB
    /\ EntryAt(1).dosen = EntryAt(2).dosen
    /\ Conflicts(heap, arg.individu) >= 2

\* C3 as stated: a solution of fitness 1 has no two entries on the same day
\* with intersecting times that share a room, an instructor, or both class
\* label and semester.
C3_NoCollisionAtFitnessOne ==
    (FitnessReturned /\ FracEq(ret, One)) =>
        \A p \in PairsOf(Len(arg.individu)) :
            ~ /\ SameDayAndTime(EntryAt(p[1]), EntryAt(p[2]))
              /\ \E kind \in {"ruang", "dosen", "kelas"} :
                    Shares(EntryAt(p[1]), EntryAt(p[2]), kind)

(***************************************************************************)
(* Properties of crossover (behaviours of SpecCall).                       *)
(***************************************************************************)
\* crossover was called with crossover_rate = 1.0 on two parents of one length
\* that are not equal by value, and the call is over
CrossoverCalled ==
    /\ pc \in {"returned", "raised"}
    /\ arg.fn = "crossover"
    /\ ga.crossover_rate = 100
    /\ Len(arg.parent1) = Len(arg.parent2)
    /\ ~ListEq(heap, arg.parent1, arg.parent2)

\* C10 as stated: with crossover_rate = 1.0, for parents of length N that are
\* not equal by value and every cut point, crossover returns two sequences of
\* length N of which at least one differs from its parent at some position.
C10_CrossoverChanges ==
    CrossoverCalled =>
        /\ pc = "returned"
        /\ Len(ret.value[1]) = Len(arg.parent1)
        /\ Len(ret.value[2]) = Len(arg.parent2)
        /\ \/ ~ListEq(heap, ret.value[1], arg.parent1)
           \/ ~ListEq(heap, ret.value[2], arg.parent2)

\* C10 amended: with crossover_rate = 1.0 and parents of length N that are not
\* equal by value, crossover raises ValueError when N = 1; when N >= 2 it
\* returns two sequences of length N, and at least one of them differs from
\* its parent at some position exactly when the parents differ by value at
\* some position after the cut point (when they differ only before the cut
\* point, both children are equal by value to their parents).
C10_CrossoverChangesAfterCut ==
    CrossoverCalled =>
        IF Len(arg.parent1) < 2
        THEN pc = "raised" /\ ret.raised = "ValueError"
        ELSE /\ pc = "returned"
             /\ Len(ret.value[1]) = Len(arg.parent1)
             /\ Len(ret.value[2]) = Len(arg.parent2)
             /\ (\/ ~ListEq(heap, ret.value[1], arg.parent1)
                 \/ ~ListEq(heap, ret.value[2], arg.parent2))
                <=> \E k \in (ret.point + 1)..Len(arg.parent1) :
                       heap[arg.parent1[k]] # heap[arg.parent2[k]]

\* C10 witness: crossover returned children after cutting parents that differ
\* after the cut point, and a child differs from its parent.
C10_Witness ==
    /\ CrossoverCalled
    /\ pc = "returned"
    /\ ret.point >= 1
    /\ ~ListEq(heap, ret.value[1], arg.parent1)

(***************************************************************************)
(* The objective the application hands to TabuSearch (app.py:234-238).     *)
(***************************************************************************)
\* the condition of the generator expression for one pair x[i], x[j]
ObjectiveConflict(xi, xj) ==
    /\ xi.hari = xj.hari /\ xi.ruang = xj.ruang
    /\ \/ xi.waktu_mulai <= xj.waktu_mulai /\ xj.waktu_mulai < xi.waktu_selesai
       \/ xj.waktu_mulai <= xi.waktu_mulai /\ xi.waktu_mulai < xj.waktu_selesai

objective(h, x) ==
    Frac(1, 1 + Cardinality({p \in (1..Len(x)) \X (1..Len(x)) :
                                /\ p[1] < p[2]
                                /\ ObjectiveConflict(h[x[p[1]]], h[x[p[2]]])}))

(***************************************************************************)
(* TabuSearch.get_neighbors                                                *)
(***************************************************************************)
\* the offsets random.randint(-30, 30) is drawn from in the model
TimeDiffSet == {-30, 0, 30}

\* line 48, on the objects a and b
SwapRuang(h, a, b) ==
    [h EXCEPT ![a].ruang = h[b].ruang, ![b].ruang = h[a].ruang]

\* lines 53-54
SwapWaktu(h, a, b) ==
    [h EXCEPT ![a].waktu_mulai = h[b].waktu_mulai, ![b].waktu_mulai = h[a].waktu_mulai,
              ![a].waktu_selesai = h[b].waktu_selesai,
              ![b].waktu_selesai = h[a].waktu_selesai]

\* line 59
SwapDosen(h, a, b) ==
    [h EXCEPT ![a].dosen = h[b].dosen, ![b].dosen = h[a].dosen]

\* max(0, min(24*60, t))
Clamp(t) == Max2(0, Min2(24 * 60, t))

\* lines 66-67
ShiftWaktu(h, a, time_diff) ==
    [h EXCEPT ![a].waktu_mulai = Clamp(@ + time_diff),
              ![a].waktu_selesai = Clamp(@ + time_diff)]

\* the loops of lines 44-60 from the pair (i, j) on: the heap they leave.
\* neighbor = solution.copy() is a new list of the same objects, so every
\* swap goes to the objects of `solution`
RECURSIVE SwapsFrom(_, _, _, _)
SwapsFrom(h, solution, i, j) ==
    IF i > Len(solution) THEN h
    ELSE IF j > Len(solution) THEN SwapsFrom(h, solution, i + 1, i + 2)
    ELSE SwapsFrom(SwapDosen(SwapWaktu(SwapRuang(h, solution[i], solution[j]),
                                       solution[i], solution[j]),
                             solution[i], solution[j]),
                   solution, i, j + 1)

\* the loop of lines 63-68 from position i on
RECURSIVE ShiftsFrom(_, _, _, _)
ShiftsFrom(h, solution, time_diff, i) ==
    IF i > Len(solution) THEN h
    ELSE ShiftsFrom(ShiftWaktu(h, solution[i], time_diff[i]), solution, time_diff, i + 1)

\* (the body of the inner loop appending two lists instead of three)
PairNeighborsTwo(solution) == <<solution, solution>>

\* lines 47-60: the lists one pass of the inner loop appends; each
\* solution.copy() is a list of the objects of `solution`
PairNeighbors(solution) == <<solution, solution, solution>>

\* the lists the loops of lines 44-60 append from the pair (i, j) on
RECURSIVE SwapNeighbors(_, _, _)
SwapNeighbors(solution, i, j) ==
    IF i > Len(solution) THEN <<>>
    ELSE IF j > Len(solution) THEN SwapNeighbors(solution, i + 1, i + 2)
    ELSE PairNeighbors(solution) \o SwapNeighbors(solution, i, j + 1)

\* the lists the loop of lines 63-68 appends from position i on
RECURSIVE ShiftNeighbors(_, _)
ShiftNeighbors(solution, i) ==
    IF i > Len(solution) THEN <<>>
    ELSE <<solution>> \o ShiftNeighbors(solution, i + 1)

\* the heap get_neighbors leaves and the list it returns: every neighbour is
\* a copy of the list `solution`, holding the objects of `solution`
get_neighbors(h, solution, time_diff) ==
    [heap |-> ShiftsFrom(SwapsFrom(h, solution, 1, 2), solution, time_diff, 1),
     neighbors |-> SwapNeighbors(solution, 1, 2) \o ShiftNeighbors(solution, 1)]

(***************************************************************************)
(* TabuSearch: criteria and tabu list                                      *)
(***************************************************************************)
\* fitness < best_fitness * (1 - threshold), the threshold in hundredths
BelowThreshold(fitness, best_fitness, threshold) ==
    fitness.num * best_fitness.den * 100 < best_fitness.num * (100 - threshold) * fitness.den

\* (line 76 reading the intensification threshold)
aspiration_criteria_intensification(self, fitness) ==
    BelowThreshold(fitness, self.best_fitness, self.intensification_threshold)

\* line 76
aspiration_criteria(self, fitness) ==
    BelowThreshold(fitness, self.best_fitness, self.aspiration_threshold)

intensification(self, h, solution) ==
    BelowThreshold(objective(h, solution), self.best_fitness, self.intensification_threshold)

\* move in self.tabu_list: tuples are equal when their lists are equal
MoveInTabu(h, move, tabu_list) ==
    \E k \in 1..Len(tabu_list) :
        ListEq(h, tabu_list[k][1], move[1]) /\ ListEq(h, tabu_list[k][2], move[2])

\* (lines 97-98 removing the newest record instead of the oldest)
update_tabu_list_newest(self, move) ==
    IF Len(self.tabu_list) + 1 > self.tabu_size
    THEN self.tabu_list
    ELSE Append(self.tabu_list, move)

\* lines 96-98
update_tabu_list(self, move) ==
    IF Len(self.tabu_list) + 1 > self.tabu_size
    THEN Tail(Append(self.tabu_list, move))
    ELSE Append(self.tabu_list, move)

(***************************************************************************)
(* TabuSearch.search                                                       *)
(***************************************************************************)
\* most iterations of a search
MaxIter == 2

AspirationSet == {0, 10, 100}
IntensificationSet == {0, 90}
DiversificationSet == {0, 80}
TabuSizeSet == {1, 2}

\* time windows of the entries of an initial solution: the slots and the
\* last half hour of the day
TSWindowSet == SlotSet \cup {<<1410, 24 * 60>>}

\* entries of an initial solution
TSEntries ==
    {Jadwal("Senin", w[1], w[2], 1, d, r, "1", 6) :
        w \in TSWindowSet, d \in DosenSet, r \in RuangSet}

\* what the neighbour loop holds: best_neighbor, best_fitness, the branch
\* that assigned them last and the position in `neighbors` of the list it
\* assigned (0 when the list was not assigned by the loop)
Candidate(best_neighbor, best_fitness, via, index) ==
    [best_neighbor |-> best_neighbor, best_fitness |-> best_fitness, via |-> via,
     index |-> index]

\* (a variant of lines 126-129 that leaves out the tabu test)
VisitAny(h, self, neighbors, k, held) ==
    IF FracLt(objective(h, neighbors[k]), held.best_fitness)
    THEN Candidate(neighbors[k], objective(h, neighbors[k]), "not_tabu", k)
    ELSE held

\* (a variant of line 127 that prefers the higher score)
VisitWorse(h, self, neighbors, k, held) ==
    IF /\ ~MoveInTabu(h, <<self.current_solution, neighbors[k]>>, self.tabu_list)
       /\ FracLt(held.best_fitness, objective(h, neighbors[k]))
    THEN Candidate(neighbors[k], objective(h, neighbors[k]), "not_tabu", k)
    ELSE held

\* lines 122-129 for the neighbour at position k
Visit(h, self, neighbors, k, held) ==
    IF /\ ~MoveInTabu(h, <<self.current_solution, neighbors[k]>>, self.tabu_list)
       /\ FracLt(objective(h, neighbors[k]), held.best_fitness)
    THEN Candidate(neighbors[k], objective(h, neighbors[k]), "not_tabu", k)
    ELSE held

\* the loop of lines 121-135 from neighbour k on
RECURSIVE VisitFrom(_, _, _, _, _)
VisitFrom(h, self, neighbors, k, held) ==
    IF k > Len(neighbors) THEN held
    ELSE IF aspiration_criteria(self, objective(h, neighbors[k]))
         THEN Candidate(neighbors[k], objective(h, neighbors[k]), "aspiration", k)
         ELSE VisitFrom(h, self, neighbors, k + 1, Visit(h, self, neighbors, k, held))

NewTSMetrics ==
    [iterations |-> <<>>, best_fitness |-> <<>>, current_fitness |-> <<>>,
     tabu_size |-> <<>>, diversification_count |-> 0, intensification_count |-> 0]

\* the state after TabuSearch(objective, initial_solution, ...) and the first
\* lines of search()
InitTS ==
    /\ \E n \in 0..MaxLen : \E h \in [1..n -> TSEntries] :
       \E max_iter \in {1, MaxIter}, tabu_size \in TabuSizeSet,
          aspiration_threshold \in AspirationSet,
          intensification_threshold \in IntensificationSet :
          \* the entry at position k is the entry of the k-th course
          /\ heap = [k \in 1..n |-> [h[k] EXCEPT !.matakuliah = k]]
          /\ ts = [current_solution |-> RefList(n), best_solution |-> RefList(n),
                   best_fitness |-> objective(h, RefList(n)), tabu_list |-> <<>>,
                   max_iter |-> max_iter, tabu_size |-> tabu_size,
                   aspiration_threshold |-> aspiration_threshold,
                   diversification_threshold |-> 80,
                   intensification_threshold |-> intensification_threshold]
    /\ run = [iteration |-> 0, error |-> None, metrics |-> NewTSMetrics,
              diversification_count |-> 0, intensification_count |-> 0]
    /\ look = [initial |-> heap, initial_fitness |-> ts.best_fitness, time_diff |-> <<>>,
               accepted |-> FALSE, was_tabu |-> FALSE, aspired |-> FALSE, via |-> None,
               before |-> heap, solution |-> ts.current_solution, neighbors |-> <<>>,
               self |-> ts, locals |-> run, held |-> Candidate(<<>>, Inf, None, 0),
               improved |-> FALSE, vias |-> <<>>, start |-> 0,
               lists |-> [current_solution |-> 0, best_solution |-> 0, tabu_list |-> <<>>]]
    /\ pc = "search"
    /\ ret = None
    /\ arg = Idle /\ ga = Idle

\* (lines 146-158 with the test of line 147 turned around)
AcceptedWorse(h, self, accepted) ==
    LET improved == FracLt(self.best_fitness, accepted.best_fitness)
        best == IF improved
                THEN [self EXCEPT !.best_solution = accepted.best_neighbor,
                                  !.best_fitness = accepted.best_fitness]
                ELSE self
        intensified == improved /\ intensification(best, h, accepted.best_neighbor)
        moved == [best EXCEPT !.current_solution = accepted.best_neighbor]
    IN [self |-> [moved EXCEPT !.tabu_list =
                     update_tabu_list(moved, <<moved.current_solution,
                                               accepted.best_neighbor>>)],
        improved |-> improved,
        intensified |-> intensified]

\* lines 146-158 once best_neighbor and best_fitness are set: the object
\* after them, and whether the two tests succeeded
Accepted(h, self, accepted) ==
    LET improved == FracLt(accepted.best_fitness, self.best_fitness)
        best == IF improved
                THEN [self EXCEPT !.best_solution = accepted.best_neighbor,
                                  !.best_fitness = accepted.best_fitness]
                ELSE self
        intensified == improved /\ intensification(best, h, accepted.best_neighbor)
        moved == [best EXCEPT !.current_solution = accepted.best_neighbor]
    IN [self |-> [moved EXCEPT !.tabu_list =
                     update_tabu_list(moved, <<moved.current_solution,
                                               accepted.best_neighbor>>)],
        improved |-> improved,
        intensified |-> intensified]

\* Which list objects the fields hold after lines 146-158. A list is named
\* by the call that made it: 0 is initial_solution, i the lists the i-th call
\* of get_neighbors returned; `lists` has the fields current_solution,
\* best_solution and tabu_list, the latter with the queue's size.
AcceptedLists(lists, tabu_size, neighbor, improved) ==
    LET best == IF improved THEN [lists EXCEPT !.best_solution = neighbor] ELSE lists
        moved == [best EXCEPT !.current_solution = neighbor]
    IN [moved EXCEPT !.tabu_list =
           update_tabu_list([tabu_list |-> moved.tabu_list, tabu_size |-> tabu_size],
                            <<moved.current_solution, neighbor>>)]

\* lines 139-140, 153-154 and 160-164: the counters and metrics after the
\* iteration; `self` is the object after lines 146-158
Recorded(locals, self, accepted, diversified, intensified) ==
    [locals EXCEPT
       !.iteration = @ + 1,
       !.diversification_count = IF diversified THEN @ + 1 ELSE @,
       !.intensification_count = IF intensified THEN @ + 1 ELSE @,
       !.metrics = [@ EXCEPT
           !.diversification_count = IF diversified THEN @ + 1 ELSE @,
           !.intensification_count = IF intensified THEN @ + 1 ELSE @,
           !.iterations = Append(@, locals.iteration),
           !.best_fitness = Append(@, self.best_fitness),
           !.current_fitness = Append(@, accepted.best_fitness),
           !.tabu_size = Append(@, Len(self.tabu_list))]]

\* lines 146-177 once best_neighbor and best_fitness are set
Accept(h, neighbors, accepted, diversified, time_diff) ==
    LET r == Accepted(h, ts, accepted)
    IN /\ heap' = h
       /\ ts' = r.self
       /\ run' = Recorded(run, r.self, accepted, diversified, r.intensified)
       /\ look' = [look EXCEPT
                     !.time_diff = time_diff,
                     !.before = heap,
                     !.solution = ts.current_solution,
                     !.neighbors = neighbors,
                     !.accepted = TRUE,
                     !.was_tabu = MoveInTabu(h, <<ts.current_solution, accepted.best_neighbor>>,
                                             ts.tabu_list),
                     !.aspired = aspiration_criteria(ts, accepted.best_fitness),
                     !.via = accepted.via,
                     !.self = ts,
                     !.locals = run,
                     !.held = accepted,
                     !.improved = r.improved,
                     !.vias = Append(@, accepted.via),
                     !.start = look.lists.current_solution,
                     !.lists = AcceptedLists(@, ts.tabu_size, run.iteration + 1,
                                             r.improved)]
       /\ pc' = IF StopCondition(r.self.best_fitness) \/ run.iteration + 1 >= ts.max_iter
                THEN "search_return" ELSE "search"

\* one pass of the for loop of line 116
Search ==
    /\ pc = "search"
    /\ run.iteration < ts.max_iter
    /\ \E time_diff \in [1..Len(ts.current_solution) -> TimeDiffSet] :
          LET g == get_neighbors(heap, ts.current_solution, time_diff)
              held == VisitFrom(g.heap, ts, g.neighbors, 1, Candidate(None, Inf, None, 0))
          IN IF held.via # None   \* best_neighbor is not None
             THEN Accept(g.heap, g.neighbors, held, FALSE, time_diff)
             ELSE IF g.neighbors = <<>>
                  THEN \* random.choice([]) raises IndexError
                       /\ heap' = g.heap
                       /\ run' = [run EXCEPT
                                    !.error = "IndexError",
                                    !.diversification_count = @ + 1,
                                    !.metrics.diversification_count = @ + 1]
                       /\ pc' = "error"
                       /\ UNCHANGED <<ts, look>>
                  ELSE \E best_neighbor \in {g.neighbors[k] : k \in 1..Len(g.neighbors)} :
                          Accept(g.heap, g.neighbors,
                                 Candidate(best_neighbor, objective(g.heap, best_neighbor),
                                           "diversification", 0),
                                 TRUE, time_diff)
    /\ UNCHANGED <<arg, ret, ga>>

\* line 185
SearchReturn ==
    /\ pc = "search_return"
    /\ ret' = [best_solution |-> ts.best_solution, best_fitness |-> ts.best_fitness,
               metrics |-> run.metrics]
    /\ pc' = "done"
    /\ UNCHANGED <<heap, arg, ga, run, ts, look>>

NextTS == Search \/ SearchReturn

SpecTS == InitTS /\ [][NextTS]_vars

(***************************************************************************)
(* Properties of the tabu search (behaviours of SpecTS).                   *)
(***************************************************************************)
\* C5 as stated: in every iteration, if the move (current solution, accepted
\* neighbour) is in the tabu queue when the neighbour is accepted, the
\* neighbour satisfies the aspiration criterion, on every path.
C5_TabuOnlyByAspiration ==
    (look.accepted /\ look.was_tabu) => look.aspired

\* C5 amended: in every iteration, if the move (current solution, accepted
\* neighbour) is in the tabu queue when the neighbour is accepted, then either
\* the neighbour satisfies the aspiration criterion, or the neighbour loop
\* accepted nothing (every move tabu, none meeting aspiration) and the
\* neighbour was chosen by the diversification fallback.
C5_TabuByAspirationOrFallback ==
    (look.accepted /\ look.was_tabu) =>
        \/ look.aspired /\ look.via = "aspiration"
        \/ ~look.aspired /\ look.via = "diversification"

\* C5 witness: a neighbour whose move is in the tabu queue was accepted
\* because it satisfies the aspiration criterion.
C5_Witness ==
    look.accepted /\ look.was_tabu /\ look.aspired /\ look.via = "aspiration"

\* the solutions one move away from the solution `solution` in heap h: one
\* pair of positions swaps rooms, times or instructors, or one position is
\* shifted by its offset
OneMoveAway(h, solution, time_diff) ==
    {SwapRuang(h, solution[p[1]], solution[p[2]]) : p \in PairsOf(Len(solution))}
    \cup {SwapWaktu(h, solution[p[1]], solution[p[2]]) : p \in PairsOf(Len(solution))}
    \cup {SwapDosen(h, solution[p[1]], solution[p[2]]) : p \in PairsOf(Len(solution))}
    \cup {ShiftWaktu(h, solution[i], time_diff[i]) : i \in 1..Len(solution)}

\* C9 as stated: with tabu_size = 1 and max_iter = 1, if the neighbourhood of
\* the initial solution contains a neighbour whose objective value is strictly
\* less than the initial solution's, the best_fitness returned by search() is
\* strictly less than the initial fitness.
C9_ImprovingNeighbourImproves ==
    (/\ pc = "done" /\ ts.tabu_size = 1 /\ ts.max_iter = 1
     /\ \E h \in OneMoveAway(look.initial, ts.best_solution, look.time_diff) :
           FracLt(objective(h, ts.best_solution), look.initial_fitness))
    => FracLt(ret.best_fitness, look.initial_fitness)

(***************************************************************************)
(* Properties of mutate (behaviours of SpecCall).                          *)
(***************************************************************************)
MutateReturned == pc = "returned" /\ arg.fn = "mutate"

\* C11: with mutation_rate = 0.0, mutate(S) returns a solution equal by value
\* to S at every position, leaves S itself unchanged, and does not increase
\* metrics['mutation_count'].
C11_NoMutationAtRateZero ==
    (MutateReturned /\ ga.mutation_rate = 0) =>
        /\ Len(ret) = Len(arg.individu)
        /\ \A k \in 1..Len(ret) : heap[ret[k]] = look.before[arg.individu[k]]
        /\ \A k \in 1..Len(arg.individu) : heap[arg.individu[k]] = look.before[arg.individu[k]]
        /\ ga.metrics.mutation_count = 0

\* C11 witness: mutate returned for a solution of two entries at rate 0.0.
C11_Witness ==
    MutateReturned /\ ga.mutation_rate = 0 /\ Len(arg.individu) >= 2

(***************************************************************************)
(* Properties of Jadwal.overlaps (behaviours of SpecCall).                 *)
(***************************************************************************)
OverlapsReturned == pc = "returned" /\ arg.fn = "overlaps"

\* the half-open intervals of a and b have a minute in common
IntervalsIntersect(a, b) ==
    Max2(a.waktu_mulai, b.waktu_mulai) < Min2(a.waktu_selesai, b.waktu_selesai)

\* C12: a.overlaps(b) is true exactly when a and b have the same day, the same
\* room, and half-open time intervals that intersect; entries with different
\* rooms never overlap and intervals that only touch do not overlap.
C12_OverlapsMeaning ==
    OverlapsReturned =>
        LET a == heap[arg.self]
            b == heap[arg.other]
        IN /\ ret <=> (a.hari = b.hari /\ a.ruang = b.ruang /\ IntervalsIntersect(a, b))
           /\ a.ruang # b.ruang => ~ret
           /\ (a.waktu_selesai = b.waktu_mulai \/ b.waktu_selesai = a.waktu_mulai) => ~ret

\* C12 witness: overlaps returned False for two entries of one day and room
\* whose intervals touch at an endpoint.
C12_Witness ==
    /\ OverlapsReturned
    /\ heap[arg.self].hari = heap[arg.other].hari
    /\ heap[arg.self].ruang = heap[arg.other].ruang
    /\ heap[arg.self].waktu_selesai = heap[arg.other].waktu_mulai
    /\ ~ret

\* C13: overlaps is symmetric, a.overlaps(b) == b.overlaps(a).
C13_OverlapsSymmetric ==
    OverlapsReturned => (ret <=> overlaps(heap[arg.other], heap[arg.self]))

\* C13 witness: overlaps returned True for two different entries whose
\* intervals differ.
C13_Witness ==
    /\ OverlapsReturned
    /\ arg.self # arg.other
    /\ heap[arg.self].waktu_mulai < heap[arg.other].waktu_mulai
    /\ ret

(***************************************************************************)
(* Properties of calculate_diversity (behaviours of SpecCall).             *)
(***************************************************************************)
DiversityCalled == pc \in {"returned", "raised"} /\ arg.fn = "calculate_diversity"

\* C14 as stated: for every population of any size >= 1 whose solutions are
\* all equal by value, calculate_diversity returns 0.
C14_EqualPopulationHasNoDiversity ==
    (/\ DiversityCalled
     /\ \A i \in 1..Len(arg.populasi) : ListEq(heap, arg.populasi[i], arg.populasi[1]))
    => /\ pc = "returned"
       /\ FracEq(ret.value, Frac(0, 1))

(***************************************************************************)
(* Properties of the construction (behaviours of SpecGA).                  *)
(***************************************************************************)
\* the catalog misses a semester bucket, or some course misses a required
\* field, has a credit weight that is not positive, or has no instructor
Malformed(data) ==
    \/ \E b \in 1..3 : RequiredSemesters[b] \notin DOMAIN data
    \/ \E b \in 1..3 :
          /\ RequiredSemesters[b] \in DOMAIN data
          /\ \E c \in 1..Len(data[RequiredSemesters[b]]) :
                LET course == data[RequiredSemesters[b]][c]
                IN \/ ~(RequiredFields \subseteq DOMAIN course)
                   \/ /\ "sks" \in DOMAIN course
                      /\ course.sks <= 0
                   \/ /\ "dosen" \in DOMAIN course
                      /\ Len(course.dosen) = 0

\* C15 as stated: constructing AlgoritmaGenetika fails with a validation
\* error, before any solution is generated, whenever the catalog misses a
\* semester bucket or some course is malformed (a missing field, a credit
\* weight that is not a positive integer, an empty instructor set).
C15_MalformedCatalogRejected ==
    (pc # "new" /\ Malformed(ga.data)) =>
        /\ pc = "error"
        /\ run.at = "__init__"
        /\ run.error = "ValueError"
        /\ heap = <<>>

(***************************************************************************)
(* The two engines side by side: the application runs the loop of the      *)
(* genetic algorithm or the tabu search.                                   *)
(***************************************************************************)
InitEngines == InitBreed \/ InitTS

NextEngines == Breed \/ Update \/ Return \/ Search \/ SearchReturn

SpecEngines == InitEngines /\ [][NextEngines]_vars

\* solution has n entries and its entry i is the entry of course i
OnePerCourse(h, solution, n) ==
    /\ Len(solution) = n
    /\ \A i \in 1..n : h[solution[i]].matakuliah = i

\* the solutions the genetic algorithm holds
SolutionsOfGA ==
    {run.populasi[i] : i \in 1..Len(run.populasi)}
    \cup {run.new_populasi[i] : i \in 1..Len(run.new_populasi)}
    \cup {run.children[i] : i \in 1..Len(run.children)}
    \cup (IF run.at \in {"crossover", "mutate"} THEN {run.parent1, run.parent2} ELSE {})
    \* best_solution is None as long as best_fitness is float('inf')
    \cup (IF ga.best_fitness = Inf THEN {} ELSE {ga.best_solution})

\* the solutions the tabu search holds; the neighbours it builds are the
\* lists of its tabu records
SolutionsOfTS ==
    {ts.current_solution, ts.best_solution}
    \cup {ts.tabu_list[k][1] : k \in 1..Len(ts.tabu_list)}
    \cup {ts.tabu_list[k][2] : k \in 1..Len(ts.tabu_list)}
    \cup (IF pc = "done" THEN {ret.best_solution} ELSE {})

\* C16: every solution that exists during a run (population members, elites,
\* crossover children, mutated offspring, tabu-search neighbours, current and
\* best solutions) has exactly one entry per catalog course, and the entry at
\* position i refers to the i-th course.
C16_OneEntryPerCourse ==
    /\ ts = Idle =>
          \A solution \in SolutionsOfGA : OnePerCourse(heap, solution, NumCourses(ga.data))
    /\ ga = Idle =>
          \A solution \in SolutionsOfTS : OnePerCourse(heap, solution, Len(look.initial))

\* C16 witness: the children of a crossover that cut its parents are held.
C16_Witness ==
    /\ ts = Idle
    /\ run.at = "mutate"
    /\ ga.metrics.crossover_count >= 1
    /\ Len(run.children) = 2

(***************************************************************************)
(* Properties of the entries of the tabu search (behaviours of SpecTS).    *)
(***************************************************************************)
\* the instructors eligible for the k-th course of the catalog
Eligible(data, k) ==
    {all_courses(data)[k].dosen[d] : d \in 1..Len(all_courses(data)[k].dosen)}

\* every entry of heap h has an instructor eligible for its course
AllEligible(data, h) ==
    \A o \in DOMAIN h : h[o].dosen \in Eligible(data, h[o].matakuliah)

\* C17 as stated: in every solution reachable in a run, the instructor of each
\* entry is a member of the eligible-instructor set of that entry's course;
\* here for a search that starts from a solution of the two-course catalog.
C17_InstructorEligible ==
    (Len(look.initial) = NumCourses(CatTwo) /\ AllEligible(CatTwo, look.initial))
    => AllEligible(CatTwo, heap)

\* C18 as stated: every entry of every solution reachable after any number of
\* iterations satisfies start < end and 0 <= start, end <= 1440.
C18_EntryTimesValid ==
    \A o \in DOMAIN heap :
        /\ heap[o].waktu_mulai < heap[o].waktu_selesai
        /\ 0 <= heap[o].waktu_mulai /\ heap[o].waktu_mulai <= 24 * 60
        /\ 0 <= heap[o].waktu_selesai /\ heap[o].waktu_selesai <= 24 * 60

\* an entry of the list `solution` was modified by the last get_neighbors
Modified(solution) ==
    \E k \in 1..Len(solution) : heap[solution[k]] # look.before[solution[k]]

\* two lists share an entry object that the last get_neighbors modified
ShareModified(list1, list2) ==
    \E i \in 1..Len(list1), j \in 1..Len(list2) :
        /\ list1[i] = list2[j]
        /\ heap[list1[i]] # look.before[list1[i]]

\* C19 as stated: get_neighbors(S) leaves S unchanged by value, and no two
\* distinct neighbours, nor a neighbour and S, share a schedule-entry instance
\* that a move has modified.
C19_NeighboursDoNotAlias ==
    look.accepted =>
        /\ ~Modified(look.solution)
        /\ \A a \in 1..Len(look.neighbors) :
              /\ ~ShareModified(look.neighbors[a], look.solution)
              /\ \A b \in 1..Len(look.neighbors) :
                    a # b => ~ShareModified(look.neighbors[a], look.neighbors[b])

(***************************************************************************)
(* The two objectives (behaviours of SpecCall).                            *)
(***************************************************************************)
\* C20 as stated: for every solution S, the objective the application passes
\* to TabuSearch returns the same value as calculate_fitness(S).
C20_SameObjective ==
    FitnessReturned => FracEq(ret, objective(heap, arg.individu))

RoundHalfEven(n, d) ==
    LET q == n \div d
        r == n % d
    IN  IF 2 * r < d THEN q
        ELSE IF 2 * r > d THEN q + 1
        ELSE IF q % 2 = 0 THEN q ELSE q + 1

\* the integer part of n/d, stated without the division of the model
Truncated(n, d) == CHOOSE t \in 0..n : d * t <= n /\ n < d * (t + 1)

\* the individuals of new_populasi are individuals of populasi, and fewer
\* than Len(new_populasi) individuals of populasi score strictly below the
\* highest score among them
LowestOf(h, new_populasi, populasi) ==
    /\ \A i \in 1..Len(new_populasi) : \E p \in 1..Len(populasi) : new_populasi[i] = populasi[p]
    /\ new_populasi # <<>> =>
         Cardinality({p \in 1..Len(populasi) :
                         FracLt(calculate_fitness(h, populasi[p]),
                                MaxFitness(h, new_populasi))}) < Len(new_populasi)

\* The elite selection of lines 250-255 on its own, for every population size
\* up to MaxBreedPop and rates whose product with it has a fractional part.
SelectElitismRates == {0, 50, 70, 100}

InitSelect ==
    /\ \E ukuran_populasi \in 1..MaxBreedPop :
       \E h \in GeneratedHeaps(CatTwo, ukuran_populasi) :
       \E elitism_rate \in SelectElitismRates :
          /\ ga = NewGA(CatTwo, ukuran_populasi, 1, 0, 0, elitism_rate)
          /\ heap = h
          /\ run = [NewRun("body") EXCEPT
                      !.populasi = [p \in 1..ukuran_populasi |->
                                       GeneratedIndividual(CatTwo, p)],
                      !.at = "elites"]
    /\ pc = "breed"
    /\ look = Idle /\ arg = Idle /\ ret = None /\ ts = Idle

SelectElites ==
    /\ pc = "breed" /\ run.at = "elites"
    /\ BreedElites
    /\ UNCHANGED <<arg, ret, ts, look>>

SpecSelect == InitSelect /\ [][SelectElites]_vars

\* the elites of this generation were selected and no offspring was added yet
ElitesSelected ==
    pc = "breed" /\ run.at = "while" /\ Len(run.new_populasi) <= run.num_elites

C29_PopulationSize ==
    Len(run.populasi) = ga.ukuran_populasi

\* C29 witness: a generation ended in which offspring were bred to fill the
\* population after the elites.
C29_Witness ==
    /\ pc = "loop" /\ run.gen = 1
    /\ run.num_elites < ga.ukuran_populasi
    /\ Len(run.children) = 2
    /\ Len(run.populasi) = ga.ukuran_populasi

(***************************************************************************)
(* The tabu queue and the neighbourhood (behaviours of SpecTS).            *)
(***************************************************************************)
\* C22 as stated: the record pushed onto the tabu queue at the end of an
\* iteration is the pair (the list that was the current solution at the
\* start of the iteration, the accepted neighbour), and the accepted
\* neighbour becomes the current solution.
C22_RecordIsPreviousAndAccepted ==
    look.accepted =>
        /\ look.lists.tabu_list[Len(look.lists.tabu_list)] = <<look.start, run.iteration>>
        /\ look.lists.current_solution = run.iteration
        /\ ts.current_solution = look.held.best_neighbor

\* C23: after iteration k (tabu_size >= 1) the tabu queue holds exactly
\* min(k, tabu_size) records, those pushed in the most recent iterations in
\* the order they were pushed, and no recorded metrics['tabu_size'] exceeds
\* tabu_size.
C23_TabuQueueBound ==
    look.accepted =>
        LET k == run.iteration
            m == Min2(k, ts.tabu_size)
        IN /\ Len(ts.tabu_list) = m
           /\ Len(look.lists.tabu_list) = m
           /\ \A j \in 1..m : look.lists.tabu_list[j][2] = k - m + j
           /\ \A i \in 1..Len(run.metrics.tabu_size) :
                 run.metrics.tabu_size[i] = Min2(i, ts.tabu_size)

\* C23 witness: the second iteration pushed its record onto a full queue of
\* size 1 and the record of the first iteration was evicted.
C23_Witness ==
    /\ look.accepted /\ run.iteration = 2 /\ ts.tabu_size = 1
    /\ Len(ts.tabu_list) = 1
    /\ look.lists.tabu_list[1][2] = 2

(***************************************************************************)
(* get_neighbors called on its own (behaviours of SpecNeighbors).          *)
(***************************************************************************)
\* entries of the solution handed to get_neighbors
NeighborEntries ==
    {Jadwal("Senin", w[1], w[2], 1, d, r, "1", 6) :
        w \in {<<480, 600>>, <<1410, 24 * 60>>}, d \in DosenSet, r \in RuangSet}

InitNeighbors ==
    /\ \E n \in 0..MaxNeighborLen : \E h \in [1..n -> NeighborEntries] :
          /\ heap = [k \in 1..n |-> [h[k] EXCEPT !.matakuliah = k]]
          /\ arg = [fn |-> "get_neighbors", solution |-> RefList(n)]
    /\ pc = "call"
    /\ ret = None
    /\ look = [before |-> heap, time_diff |-> <<>>]
    /\ ga = Idle /\ run = Idle /\ ts = Idle

\* neighbors = self.get_neighbors(solution); the offsets of line 65 are
\* kept in look.time_diff
CallGetNeighbors ==
    /\ pc = "call"
    /\ arg.fn = "get_neighbors"
    /\ \E time_diff \in [1..Len(arg.solution) -> TimeDiffSet] :
          LET g == get_neighbors(heap, arg.solution, time_diff)
          IN /\ heap' = g.heap
             /\ ret' = g.neighbors
             /\ look' = [look EXCEPT !.time_diff = time_diff]
    /\ pc' = "returned"
    /\ UNCHANGED <<arg, ga, run, ts>>

SpecNeighbors == InitNeighbors /\ [][CallGetNeighbors]_vars

\* C24: for a solution of N entries get_neighbors returns exactly
\* 3 * C(N, 2) + N neighbours.
C24_NeighbourCount ==
    pc = "returned" =>
        LET N == Len(arg.solution)
        IN Len(ret) = 3 * ((N * (N - 1)) \div 2) + N

\* C24 witness: get_neighbors returned the 12 neighbours of a solution of
\* three entries.
C24_Witness ==
    pc = "returned" /\ Len(arg.solution) = 3 /\ Len(ret) = 12

\* C25 as stated: each neighbour get_neighbors(S) returns is exactly one
\* move away from S as S was before the call: the rooms, the times or the
\* instructors of one pair exchanged, or the times of one position shifted
\* by one offset and clamped, and every other field of every entry unchanged.
C25_NeighboursOneMoveAway ==
    pc = "returned" =>
        \A a \in 1..Len(ret) :
            \E time_diff \in [1..Len(arg.solution) -> TimeDiffSet] :
            \E h \in OneMoveAway(look.before, arg.solution, time_diff) :
                \A k \in 1..Len(arg.solution) : heap[ret[a][k]] = h[arg.solution[k]]

(***************************************************************************)
(* The choice of the accepted neighbour (behaviours of SpecTS).            *)
(***************************************************************************)
\* the neighbour at position a of the last iteration satisfied the aspiration
\* criterion when the loop evaluated it
Aspires(a) ==
    aspiration_criteria(look.self, objective(heap, look.neighbors[a]))

\* the move to the neighbour at position a was in the tabu queue
IsTabu(a) ==
    MoveInTabu(heap, <<look.self.current_solution, look.neighbors[a]>>, look.self.tabu_list)

AspiringPositions == {a \in 1..Len(look.neighbors) : Aspires(a)}

NonTabuPositions == {a \in 1..Len(look.neighbors) : ~IsTabu(a)}

\* C26: if some neighbour satisfies the aspiration criterion, the accepted
\* neighbour is the first such neighbour in the order get_neighbors emitted
\* them; otherwise, if some candidate move is not tabu, the accepted
\* neighbour is a non-tabu neighbour of minimum fitness among the non-tabu
\* neighbours.
C26_SelectionOrder ==
    look.accepted =>
        IF AspiringPositions # {}
        THEN /\ look.held.via = "aspiration"
             /\ look.held.index \in AspiringPositions
             /\ \A b \in AspiringPositions : look.held.index <= b
             /\ ts.current_solution = look.neighbors[look.held.index]
        ELSE NonTabuPositions # {} =>
             /\ look.held.via = "not_tabu"
             /\ look.held.index \in NonTabuPositions
             /\ \A b \in NonTabuPositions :
                   FracLe(objective(heap, look.neighbors[look.held.index]),
                          objective(heap, look.neighbors[b]))
             /\ look.held.best_fitness = objective(heap, look.neighbors[look.held.index])
             /\ ts.current_solution = look.neighbors[look.held.index]

\* C26 witness: no neighbour aspired, some move was not tabu, and the loop
\* accepted a non-tabu neighbour out of several.
C26_Witness ==
    /\ look.accepted
    /\ AspiringPositions = {}
    /\ Cardinality(NonTabuPositions) > 1
    /\ look.held.via = "not_tabu"

\* the iterations so far that accepted a neighbour by the fallback of lines
\* 137-144
FallbackIterations == {i \in 1..Len(look.vias) : look.vias[i] = "diversification"}

\* C27 as stated: the diversification counter is incremented in exactly the
\* iterations in which every candidate move is tabu and no neighbour
\* satisfies the aspiration criterion; in such an iteration one neighbour of
\* the current neighbourhood is accepted, and the counter equals the number
\* of such iterations.
C27_DiversificationCount ==
    /\ look.accepted =>
          /\ (look.via = "diversification")
                <=> (AspiringPositions = {} /\ NonTabuPositions = {})
          /\ look.via = "diversification" =>
                \E a \in 1..Len(look.neighbors) : ts.current_solution = look.neighbors[a]
    /\ run.metrics.diversification_count = Cardinality(FallbackIterations)
    /\ pc = "done" => ret.metrics.diversification_count = Cardinality(FallbackIterations)

(***************************************************************************)
(* The thresholds that do not steer the search (behaviours of SpecTS).     *)
(***************************************************************************)
\* The last iteration done again from the state it started in, with the
\* same offsets and the same random choice of the fallback, by an object
\* whose intensification and diversification thresholds are `it` and `dv`:
\* the heap, the accepted neighbour, the object and the locals after it.
Redone(it, dv) ==
    LET self == [look.self EXCEPT !.intensification_threshold = it,
                                  !.diversification_threshold = dv]
        g == get_neighbors(look.before, self.current_solution, look.time_diff)
        held == VisitFrom(g.heap, self, g.neighbors, 1, Candidate(None, Inf, None, 0))
        accepted == IF held.via # None THEN held ELSE look.held
        r == Accepted(g.heap, self, accepted)
    IN [heap |-> g.heap,
        fallback |-> held.via = None,
        accepted |-> accepted,
        self |-> r.self,
        locals |-> Recorded(look.locals, r.self, accepted, held.via = None, r.intensified)]

\* C30: two searches that differ only in intensification_threshold or
\* diversification_threshold and make the same random choices accept the
\* same neighbour in every iteration and hold the same best solution, best
\* fitness, time series and diversification count after it; only
\* intensification_count may differ, and it is incremented only in an
\* iteration in which the best fitness strictly improved.
C30_ThresholdsDoNotSteer ==
    look.accepted =>
        /\ \A it \in IntensificationSet, dv \in DiversificationSet :
              LET r == Redone(it, dv)
              IN /\ r.heap = heap
                 /\ r.fallback = (look.via = "diversification")
                 /\ r.accepted = look.held
                 /\ [r.self EXCEPT
                       !.intensification_threshold = ts.intensification_threshold,
                       !.diversification_threshold = ts.diversification_threshold] = ts
                 /\ [r.locals EXCEPT
                       !.intensification_count = run.intensification_count,
                       !.metrics.intensification_count =
                           run.metrics.intensification_count] = run
        /\ run.intensification_count > look.locals.intensification_count => look.improved
        /\ run.metrics.intensification_count > look.locals.metrics.intensification_count
              => look.improved

\* C30 witness: an iteration improved the best fitness, so that line 152
\* evaluated the intensification criterion, and a neighbour was accepted.
C30_Witness ==
    /\ look.accepted /\ look.improved
    /\ FracLt(ts.best_fitness, look.self.best_fitness)
    /\ ts.current_solution = look.held.best_neighbor

(***************************************************************************)
(* What search returns (behaviours of SpecTS).                             *)
(***************************************************************************)
\* C31 as stated: when search returns, the objective applied to the returned
\* best_solution yields the returned best_fitness.
C31_ReturnedFitnessIsOfReturnedSolution ==
    pc = "done" => FracEq(objective(heap, ret.best_solution), ret.best_fitness)

\* C32: the recorded metrics['best_fitness'] series never increases, every
\* value of it is <= the fitness of the initial solution, and in every
\* iteration the recorded best_fitness is <= the recorded current_fitness.
C32_BestFitnessNeverWorse ==
    pc \in {"search", "search_return", "done"} =>
        \A i \in 1..Len(run.metrics.best_fitness) :
            /\ FracLe(run.metrics.best_fitness[i], look.initial_fitness)
            /\ FracLe(run.metrics.best_fitness[i], run.metrics.current_fitness[i])
            /\ i > 1 => FracLe(run.metrics.best_fitness[i], run.metrics.best_fitness[i - 1])

\* C32 witness: two iterations were recorded and the second lowered the best
\* fitness below that of the initial solution.
C32_Witness ==
    /\ pc = "done"
    /\ Len(run.metrics.best_fitness) = 2
    /\ FracLt(run.metrics.best_fitness[2], run.metrics.best_fitness[1])
    /\ FracEq(run.metrics.best_fitness[1], look.initial_fitness)

(***************************************************************************)
(* The semester of generated entries (behaviours of SpecGA).               *)
(***************************************************************************)
\* the semester number of the bucket the k-th course of the catalog is in
BucketOf(data, k) ==
    IF k <= Len(data.semester_2) THEN 2
    ELSE IF k <= Len(data.semester_2) + Len(data.semester_4) THEN 4
    ELSE 6

\* C33 as stated: every entry generate_random_jadwal produced carries the
\* semester number of the catalog bucket its course was taken from.
C33_SemesterOfBucket ==
    \A o \in DOMAIN heap : heap[o].semester = BucketOf(ga.data, heap[o].matakuliah)

====
